---- MODULE Spec2Model ----
(***************************************************************************)
(* admin-overrides.js: two DOMContentLoaded listeners that prune the       *)
(* sidebar of the admin template.  The DOM is a tree of elements; every    *)
(* element has a tag, a class set and a text chunk of its own (a Text node *)
(* placed before its child elements).  Strings are sequences of            *)
(* one-character strings so that trim() and toLowerCase() are computed.    *)
(***************************************************************************)
EXTENDS Integers, Sequences, FiniteSets, TLC

VARIABLES
  tag, cls, text,   \* the elements: tag name, class list, own text
  parent,           \* parentNode of every element (Doc, an element or Null)
  listener,         \* the DOMContentLoaded listener the dispatch runs next
  dispatched,       \* completed dispatches of DOMContentLoaded
  console,          \* the console.warn calls made so far
  uncaught,         \* an exception has left a listener
  ul,               \* `ul` of the last run of the first listener
  parent0,          \* history: parent at page load
  parentPrev,       \* history: parent when the last listener run started
  threw,            \* history: per listener run, did its try block throw
  faultAt           \* history: the DOM call that threw in the last run (0 none)

vars == <<tag, cls, text, parent, listener, dispatched, console, uncaught,
          ul, parent0, parentPrev, threw, faultAt>>

\* ------------------------------------------------------------------ bounds
MaxNodes == 5
MaxItems == 3
MaxHeaderNodes == 4
MaxDispatch == 2

\* --------------------------------------------------------------- DOM basics
Doc == 0
Null == 0 - 1

Elements(p) == DOMAIN p

RECURSIVE Ancestors(_, _)
\* proper element ancestors of n (parentElement chain)
Ancestors(p, n) ==
  IF p[n] = Doc \/ p[n] = Null THEN {}
  ELSE {p[n]} \cup Ancestors(p, p[n])

RECURSIVE Attached(_, _)
\* n is connected to the document
Attached(p, n) ==
  IF p[n] = Doc THEN TRUE
  ELSE IF p[n] = Null THEN FALSE
  ELSE Attached(p, p[n])

AttachedSet(p) == {n \in Elements(p) : Attached(p, n)}

Min(S) == CHOOSE x \in S : \A y \in S : x <= y

\* child lists are kept in creation order, which is the element number
ChildList(p, n) ==
  SelectSeq([i \in 1..Cardinality(DOMAIN p) |-> i], LAMBDA m : p[m] = n)

RECURSIVE Preorder(_, _)
RECURSIVE PreorderAll(_, _)
\* tree order of the subtree of n, n first
Preorder(p, n) == <<n>> \o PreorderAll(p, ChildList(p, n))
PreorderAll(p, s) ==
  IF s = <<>> THEN <<>>
  ELSE Preorder(p, Head(s)) \o PreorderAll(p, Tail(s))

\* the elements of the document in tree order
DocumentOrder(p) == PreorderAll(p, ChildList(p, Doc))

RECURSIVE TextContent(_, _, _)
RECURSIVE TextContentAll(_, _, _)
\* Node.textContent: the text of all descendants, concatenated in tree order
TextContent(p, tx, n) == tx[n] \o TextContentAll(p, tx, ChildList(p, n))
TextContentAll(p, tx, s) ==
  IF s = <<>> THEN <<>>
  ELSE TextContent(p, tx, Head(s)) \o TextContentAll(p, tx, Tail(s))

\* ------------------------------------------------------------------ strings
WhiteSpace == {" ", "\t", "\n", "\r"}

Upper == <<"A","B","C","D","E","F","G","H","I","J","K","L","M",
           "N","O","P","Q","R","S","T","U","V","W","X","Y","Z">>
Lower == <<"a","b","c","d","e","f","g","h","i","j","k","l","m",
           "n","o","p","q","r","s","t","u","v","w","x","y","z">>

UpperSet == {Upper[i] : i \in DOMAIN Upper}
LowerOf == [c \in UpperSet |-> Lower[CHOOSE i \in DOMAIN Upper : Upper[i] = c]]

LowerChar(c) == IF c \in UpperSet THEN LowerOf[c] ELSE c

\* String.prototype.toLowerCase
ToLowerCase(s) == [i \in 1..Len(s) |-> LowerChar(s[i])]

RECURSIVE TrimStart(_)
TrimStart(s) ==
  IF s # <<>> /\ Head(s) \in WhiteSpace THEN TrimStart(Tail(s)) ELSE s

RECURSIVE TrimEnd(_)
TrimEnd(s) ==
  IF s # <<>> /\ s[Len(s)] \in WhiteSpace
  THEN TrimEnd(SubSeq(s, 1, Len(s) - 1)) ELSE s

\* variant: trimStart() in place of trim()
TrimStartOnly(s) == TrimStart(s)

\* String.prototype.trim
Trim(s) == TrimEnd(TrimStart(s))

dashboard == <<"d","a","s","h","b","o","a","r","d">>
groups == <<"g","r","o","u","p","s">>
exams == <<"e","x","a","m","s">>

\* const t = a.textContent.trim().toLowerCase()
NormalizedText(p, tx, n) == ToLowerCase(Trim(TextContent(p, tx, n)))

\* variant: the first listener without the 'groups' comparison
Labels1DashboardOnly == {dashboard}

\* the labels each listener compares t with (lines 6 and 43)
Labels1 == {dashboard, groups}
Labels2 == {dashboard}

\* ---------------------------------------------------------------- selectors
HasClass(c, n, k) == k \in c[n]

\* variant: the selector 'a', every link of the document
AllAnchors(p, tg, c) == SelectSeq(DocumentOrder(p), LAMBDA n : tg[n] = "a")

\* document.querySelectorAll('.nav-sidebar a'), a static list in tree order
SidebarAnchors(p, tg, c) ==
  SelectSeq(DocumentOrder(p),
            LAMBDA n : /\ tg[n] = "a"
                       /\ \E s \in Ancestors(p, n) : HasClass(c, s, "nav-sidebar"))

\* document.querySelectorAll('.nav-sidebar .nav-header')
SidebarHeaders(p, c) ==
  SelectSeq(DocumentOrder(p),
            LAMBDA n : /\ HasClass(c, n, "nav-header")
                       /\ \E s \in Ancestors(p, n) : HasClass(c, s, "nav-sidebar"))

\* document.querySelector('.nav-sidebar'): first match in tree order or null
QuerySidebar(p, c) ==
  LET m == SelectSeq(DocumentOrder(p), LAMBDA n : HasClass(c, n, "nav-sidebar"))
  IN IF m = <<>> THEN Null ELSE Head(m)

RECURSIVE Closest(_, _, _, _)
\* Element.closest(t): n itself or its nearest ancestor with tag t, else null
Closest(p, tg, n, t) ==
  IF tg[n] = t THEN n
  ELSE IF p[n] = Doc \/ p[n] = Null THEN Null
  ELSE Closest(p, tg, p[n], t)

\* Element.remove(): detach n, its subtree stays below it
Remove(p, n) == [p EXCEPT ![n] = Null]

\* Element.nextElementSibling
NextElementSibling(p, n) ==
  LET later == {m \in Elements(p) : p[m] = p[n] /\ m > n}
  IN IF p[n] = Null \/ later = {} THEN Null ELSE Min(later)

\* ----------------------------------------------------------------- handlers
\* t === 'dashboard' || t === 'groups'  (line 6),  t === 'dashboard' (line 43)
Matches(t, labels) == t \in labels

RECURSIVE ForEachAllOrNothing(_, _, _, _, _, _, _)
\* variant: the items are collected first and removed after the loop
ForEachAllOrNothing(p, tg, tx, anchors, i, labels, failAt) ==
  IF i > Len(anchors) THEN [parent |-> p, threw |-> FALSE]
  ELSE IF failAt \in i..Len(anchors) THEN [parent |-> p, threw |-> TRUE]
  ELSE LET a == anchors[i]
           t == ToLowerCase(Trim(TextContent(p, tx, a)))
           li == IF t \in labels THEN Closest(p, tg, a, "li") ELSE Null
       IN ForEachAllOrNothing(IF li # Null THEN Remove(p, li) ELSE p,
                              tg, tx, anchors, i + 1, labels, failAt)

RECURSIVE ForEach(_, _, _, _, _, _, _)
\* NodeList.forEach over the static list from callback i on (lines 4-10 and
\* 41-47).  failAt is the callback in which a DOM call throws (before it
\* mutates anything); a value outside 1..Len(anchors) means none does.
ForEach(p, tg, tx, anchors, i, labels, failAt) ==
  IF i > Len(anchors) THEN [parent |-> p, threw |-> FALSE]
  ELSE IF i = failAt THEN [parent |-> p, threw |-> TRUE]
  ELSE LET a == anchors[i]
           t == NormalizedText(p, tx, a)
           li == IF Matches(t, labels) THEN Closest(p, tg, a, "li") ELSE Null
       IN ForEach(IF li # Null THEN Remove(p, li) ELSE p,
                  tg, tx, anchors, i + 1, labels, failAt)

\* variant: the next sibling is taken whatever its class
LocatorAnySibling(p, tg, c, tx) ==
  LET found == SelectSeq(SidebarHeaders(p, c),
                         LAMBDA h : NormalizedText(p, tx, h) = exams)
      examsHeader == IF found = <<>> THEN Null ELSE Head(found)
      sib == IF examsHeader # Null THEN NextElementSibling(p, examsHeader) ELSE Null
  IN IF sib = Null
     THEN [ul |-> QuerySidebar(p, c), threw |-> FALSE]
     ELSE [ul |-> sib, threw |-> FALSE]

\* variant: classList read without the null test of line 16
LocatorNoNullTest(p, tg, c, tx) ==
  LET found == SelectSeq(SidebarHeaders(p, c),
                         LAMBDA h : NormalizedText(p, tx, h) = exams)
      examsHeader == IF found = <<>> THEN Null ELSE Head(found)
      sib == IF examsHeader # Null THEN NextElementSibling(p, examsHeader) ELSE Null
  IN IF sib = Null THEN [ul |-> Null, threw |-> TRUE]
     ELSE IF ~HasClass(c, sib, "nav-treeview")
     THEN [ul |-> QuerySidebar(p, c), threw |-> FALSE]
     ELSE [ul |-> sib, threw |-> FALSE]

\* lines 13-19: the Exams header, its next sibling, the fallback.  The
\* null test of line 16 comes first, so classList is never read on null.
Locator(p, tg, c, tx) ==
  LET found == SelectSeq(SidebarHeaders(p, c),
                         LAMBDA h : NormalizedText(p, tx, h) = exams)
      examsHeader == IF found = <<>> THEN Null ELSE Head(found)
      sib == IF examsHeader # Null THEN NextElementSibling(p, examsHeader) ELSE Null
  IN IF sib = Null \/ ~HasClass(c, sib, "nav-treeview")
     THEN [ul |-> QuerySidebar(p, c), threw |-> FALSE]
     ELSE [ul |-> sib, threw |-> FALSE]

\* lines 21-29: addItem(text, href, icon) builds li > a > (i, p) and appends
\* the li to ul.  The whitespace Text nodes of the template literal sit at the
\* two ends of a.textContent and are kept as the text of a.
AddItem(d, u, call) ==
  LET n == Cardinality(DOMAIN d.parent)
      li == n + 1
      a == n + 2
      ic == n + 3
      para == n + 4
      built == [parent |-> d.parent @@ (li :> Null) @@ (a :> li) @@ (ic :> a) @@ (para :> a),
                tag |-> d.tag @@ (li :> "li") @@ (a :> "a") @@ (ic :> "i") @@ (para :> "p"),
                cls |-> d.cls @@ (li :> {"nav-item"}) @@ (a :> {"nav-link"})
                        @@ (ic :> {"nav-icon", call.icon}) @@ (para :> {}),
                text |-> d.text @@ (li :> <<>>) @@ (a :> <<"\n", " ">>)
                         @@ (ic :> <<>>) @@ (para :> call.text),
                threw |-> FALSE]
  IN IF d.threw THEN d
     ELSE IF u = Null THEN [built EXCEPT !.threw = TRUE]
     ELSE [built EXCEPT !.parent[li] = u]

\* variant: the three items of the comment of line 32 are added
ThreeItemCalls ==
  << [text |-> <<"I","m","p","o","r","t">>, href |-> "/import/", icon |-> "fas fa-file-import"],
     [text |-> <<"E","x","p","o","r","t">>, href |-> "/export/", icon |-> "fas fa-file-import"],
     [text |-> Tail(<<" ","R","e","s","u","l","t","s">>), href |-> "/results/", icon |-> "fas fa-file-import"] >>

\* lines 31-33: the calls of addItem the handler makes (none)
AddItemCalls == <<>>

RECURSIVE AddItems(_, _, _)
AddItems(d, u, calls) ==
  IF calls = <<>> THEN d
  ELSE AddItems(AddItem(d, u, Head(calls)), u, Tail(calls))

\* the message of lines 35 and 49
Warning(h) == [msg |-> "Sidebar customization failed", listener |-> h]

\* variant: the catch block logs and rethrows
CatchRethrow(con, h) == [console |-> Append(con, Warning(h)), uncaught |-> TRUE]

\* catch (e) { console.warn(...) }: logs, does not rethrow
Catch(con, h) == [console |-> Append(con, Warning(h)), uncaught |-> FALSE]

\* The body of the try block of the first listener (lines 3-33).  f is the
\* DOM call that throws: 0 none, 1 the query of line 4, k + 1 the k-th
\* callback of the forEach, Len + 2 the query of line 13.
Body1(f) ==
  LET anchors == SidebarAnchors(parent, tag, cls)
      d0 == [parent |-> parent, tag |-> tag, cls |-> cls, text |-> text, threw |-> TRUE]
  IN IF f = 1 THEN d0 @@ [ul |-> Null]
     ELSE LET r == ForEach(parent, tag, text, anchors, 1, Labels1, f - 1)
              d1 == [d0 EXCEPT !.parent = r.parent]
          IN IF r.threw \/ f = Len(anchors) + 2 THEN d1 @@ [ul |-> Null]
             ELSE LET loc == Locator(r.parent, tag, cls, text)
                  IN IF loc.threw THEN d1 @@ [ul |-> loc.ul]
                     ELSE AddItems([d1 EXCEPT !.threw = FALSE], loc.ul, AddItemCalls)
                          @@ [ul |-> loc.ul]

\* The body of the try block of the second listener (lines 40-47).
Body2(f) ==
  LET anchors == SidebarAnchors(parent, tag, cls)
  IN IF f = 1 THEN [parent |-> parent, threw |-> TRUE]
     ELSE ForEach(parent, tag, text, anchors, 1, Labels2, f - 1)

\* the DOM calls of the two bodies that can be made to throw
FaultPoints1 == 0..(Len(SidebarAnchors(parent, tag, cls)) + 2)
FaultPoints2 == 0..(Len(SidebarAnchors(parent, tag, cls)) + 1)

\* first listener, lines 1-37
Handler1(f) ==
  /\ listener = 1
  /\ dispatched < MaxDispatch
  /\ IF f = 0 THEN TRUE ELSE f \in FaultPoints1
  /\ \E out \in {Body1(f)} :
     \E c \in {IF out.threw THEN Catch(console, 1)
               ELSE [console |-> console, uncaught |-> FALSE]} :
        /\ parent' = out.parent
        /\ tag' = out.tag
        /\ cls' = out.cls
        /\ text' = out.text
        /\ ul' = out.ul
        /\ console' = c.console
        /\ uncaught' = (uncaught \/ c.uncaught)
        /\ threw' = Append(threw, out.threw)
        /\ faultAt' = (IF out.threw THEN f ELSE 0)
  /\ parentPrev' = parent
  /\ listener' = 2
  /\ UNCHANGED <<dispatched, parent0>>

\* second listener, lines 38-51
Handler2(f) ==
  /\ listener = 2
  /\ IF f = 0 THEN TRUE ELSE f \in FaultPoints2
  /\ \E out \in {Body2(f)} :
     \E c \in {IF out.threw THEN Catch(console, 2)
               ELSE [console |-> console, uncaught |-> FALSE]} :
        /\ parent' = out.parent
        /\ console' = c.console
        /\ uncaught' = (uncaught \/ c.uncaught)
        /\ threw' = Append(threw, out.threw)
        /\ faultAt' = (IF out.threw THEN f ELSE 0)
  /\ parentPrev' = parent
  /\ listener' = 1
  /\ dispatched' = dispatched + 1
  /\ UNCHANGED <<tag, cls, text, ul, parent0>>

\* ------------------------------------------------------------ initial trees
Dashboard == <<"D","a","s","h","b","o","a","r","d">>
Groups == <<"G","r","o","u","p","s">>
Reports == <<"R","e","p","o","r","t","s">>
Exams == <<"E","x","a","m","s">>
Users == <<"U","s","e","r","s">>

KSidebar == [tag |-> "ul", cls |-> {"nav", "nav-sidebar"}, text |-> <<>>]
KItem == [tag |-> "li", cls |-> {"nav-item"}, text |-> <<>>]
KTreeview == [tag |-> "ul", cls |-> {"nav", "nav-treeview"}, text |-> <<>>]
KAnchor(l) == [tag |-> "a", cls |-> {"nav-link"}, text |-> l]
KHeader(l) == [tag |-> "li", cls |-> {"nav-header"}, text |-> l]

\* every ordered tree on 1..n once: elements are numbered in tree order
TreeShapes(n) ==
  {p \in [1..n -> 0..(n - 1)] :
     /\ p[1] = Doc
     /\ \A i \in 2..n : p[i] = i - 1 \/ p[i] \in Ancestors(p, i - 1)}

Shapes == TreeShapes(MaxNodes)

\* the sidebar with n items li > a
FlatShape(n) ==
  [i \in 1..(2 * n + 1) |-> IF i = 1 THEN Doc ELSE IF i % 2 = 0 THEN 1 ELSE i - 1]

InitWith(p, k) ==
  /\ parent = p
  /\ tag = [n \in DOMAIN p |-> k[n].tag]
  /\ cls = [n \in DOMAIN p |-> k[n].cls]
  /\ text = [n \in DOMAIN p |-> k[n].text]
  /\ listener = 1
  /\ dispatched = 0
  /\ console = <<>>
  /\ uncaught = FALSE
  /\ ul = Null
  /\ parent0 = p
  /\ parentPrev = p
  /\ threw = <<>>
  /\ faultAt = 0

TreeKinds == {KSidebar, KItem, KAnchor(Dashboard), KAnchor(Reports)}
RootKinds == {KSidebar, KItem}

\* every tree of MaxNodes elements over the sidebar, items and links
InitTree ==
  \E p \in Shapes : \E k \in [1..MaxNodes -> TreeKinds] :
    k[1] \in RootKinds /\ InitWith(p, k)

FlatKinds(n, labels) ==
  {k \in [1..(2 * n + 1) -> {KSidebar, KItem} \cup {KAnchor(l) : l \in labels}] :
     \A i \in 1..(2 * n + 1) :
       IF i = 1 THEN k[i] = KSidebar
       ELSE IF i % 2 = 0 THEN k[i] = KItem ELSE k[i].tag = "a"}

\* the sidebar of the template: up to MaxItems items, each li > a
InitFlat ==
  \E n \in 0..MaxItems : \E k \in FlatKinds(n, {Dashboard, Groups, Reports}) :
    InitWith(FlatShape(n), k)

Init == InitTree \/ InitFlat

Next == Handler1(0) \/ Handler2(0)

Spec == Init /\ [][Next]_vars

\* menus: every element lies in the sidebar and every link is a leaf
MenuKinds == {KItem, KAnchor(Dashboard), KAnchor(Groups), KAnchor(Reports)}

InitMenu ==
  \/ \E p \in Shapes : \E k \in [1..MaxNodes -> MenuKinds \cup {KSidebar}] :
        /\ k[1] = KSidebar
        /\ \A n \in 2..MaxNodes : k[n] \in MenuKinds
        /\ \A n \in 1..MaxNodes : k[n].tag = "a" => \A m \in 1..MaxNodes : p[m] # n
        /\ InitWith(p, k)
  \/ InitFlat

SpecMenu == InitMenu /\ [][Next]_vars

\* trees with section headers and treeview lists
HeaderKinds == {KSidebar, KItem, KTreeview, KHeader(Exams), KHeader(Users),
                KAnchor(Dashboard)}

InitHeaders ==
  \E p \in TreeShapes(MaxHeaderNodes) : \E k \in [1..MaxHeaderNodes -> HeaderKinds] :
    k[1] \in RootKinds /\ InitWith(p, k)

SpecHeaders == InitHeaders /\ [][Next]_vars

\* link texts: a label between optional white space
Pads == {<<>>, <<" ">>, <<"\n", " ", "\t">>}
Cores == {Dashboard, dashboard, Groups, groups, Reports,
          <<"D","A","S","H","B","O","A","R","D">>,
          <<"G","R","O","U","P","S">>,
          <<"G","r","o","u","p">>,
          <<"d","a","s","h","b","o","a","r","d","s">>,
          <<"d","a","s","h"," ","b","o","a","r","d">>,
          <<"M","y"," ","G","r","o","u","p","s">>,
          <<"g","r","o","u","p","s","\t","2">>,
          <<>>}
TextLabels == {l \o c \o r : l \in Pads, c \in Cores, r \in Pads}

InitText ==
  \E k \in FlatKinds(1, TextLabels) : InitWith(FlatShape(1), k)

SpecText == InitText /\ [][Next]_vars

\* a host whose DOM calls may throw
NextThrowing == \E f \in 0..(2 * MaxItems + 3) : Handler1(f) \/ Handler2(f)

SpecThrowing == InitFlat /\ [][NextThrowing]_vars

\* ------------------------------------------------------- stating the claims
\* s is target written in any letter case
SameIgnoringCase(s, target) ==
  /\ Len(s) = Len(target)
  /\ \A k \in 1..Len(s) :
       \/ s[k] = target[k]
       \/ \E i \in DOMAIN Upper : Upper[i] = s[k] /\ Lower[i] = target[k]

\* s is target in any letter case between two runs of white space
Reads(s, target) ==
  \E i \in 0..(Len(s) - Len(target)) :
    /\ \A k \in 1..i : s[k] \in WhiteSpace
    /\ \A k \in (i + Len(target) + 1)..Len(s) : s[k] \in WhiteSpace
    /\ SameIgnoringCase(SubSeq(s, i + 1, i + Len(target)), target)

UnderSidebar(p, n) == \E s \in Ancestors(p, n) : "nav-sidebar" \in cls[s]

\* the links of the sidebar of tree p whose text reads as one of the targets
MatchingAnchors(p, targets) ==
  {a \in AttachedSet(p) :
     /\ tag[a] = "a"
     /\ UnderSidebar(p, a)
     /\ \E t \in targets : Reads(TextContent(p, text, a), t)}

\* the nearest enclosing list item of a, if it has one
NearestItem(p, a) ==
  {l \in Ancestors(p, a) :
     /\ tag[l] = "li"
     /\ \A m \in Ancestors(p, a) : tag[m] = "li" /\ m # l => m \in Ancestors(p, l)}

ItemsOf(p, targets) == UNION {NearestItem(p, a) : a \in MatchingAnchors(p, targets)}

\* the elements of p outside every such item
Kept(p, targets) ==
  {n \in AttachedSet(p) :
     n \notin ItemsOf(p, targets) /\ Ancestors(p, n) \cap ItemsOf(p, targets) = {}}

\* the labels of the listener that ran last
LastTargets == IF listener = 2 THEN {dashboard, groups} ELSE {dashboard}

\* the page started as the flat sidebar of n items li > a
TemplateSidebar(n) ==
  /\ DOMAIN parent0 = 1..(2 * n + 1)
  /\ parent0 = FlatShape(n)
  /\ "nav-sidebar" \in cls[1]
  /\ \A i \in 1..n : tag[2 * i] = "li" /\ tag[2 * i + 1] = "a"

\* C1 as stated: after both listeners every link of the sidebar that reads
\* dashboard or groups has lost its nearest list item, and every other list
\* item is still in the document.
C1_Original ==
  Len(threw) = 2 =>
    /\ \A a \in MatchingAnchors(parent0, {dashboard, groups}) :
         \A l \in NearestItem(parent0, a) : ~Attached(parent, l)
    /\ \A l \in AttachedSet(parent0) :
         tag[l] = "li" /\ l \notin ItemsOf(parent0, {dashboard, groups})
           => Attached(parent, l)

\* C1 amended: a listener run removes exactly the nearest list items of the
\* sidebar links that read as one of its labels when the run starts, together
\* with all that is nested in those items; in the flat sidebar of the
\* template exactly the items whose link is neither Dashboard nor Groups stay.
C1_RemovesItemsWithTheirSubtrees ==
  /\ Len(threw) >= 1 => AttachedSet(parent) = Kept(parentPrev, LastTargets)
  /\ \A n \in 0..MaxItems :
       TemplateSidebar(n) /\ Len(threw) >= 1 =>
         \A i \in 1..n :
           Attached(parent, 2 * i) <=> text[2 * i + 1] \notin {Dashboard, Groups}

\* Dashboard, Groups, Reports: only the Reports item is left
C1_OnlyReportsRemains ==
  /\ TemplateSidebar(3)
  /\ <<text[3], text[5], text[7]>> = <<Dashboard, Groups, Reports>>
  /\ Len(threw) = 2
  /\ AttachedSet(parent) = {1, 6, 7}

\* C2: a link is selected exactly when its text reads dashboard or groups:
\* any letter case, white space allowed around it and nowhere else, nothing
\* more and nothing less.  (The sidebar has one item, so selecting the link
\* is the same as its item leaving the document.)
C2_SelectedIffTextReadsLabel ==
  TemplateSidebar(1) /\ Len(threw) >= 1 =>
    (~Attached(parent, 2) <=> Reads(text[3], dashboard) \/ Reads(text[3], groups))

\* "\n \tGROUPS " is selected
C2_PaddedUpperCaseSelected ==
  /\ TemplateSidebar(1)
  /\ text[3] = <<"\n", " ", "\t", "G", "R", "O", "U", "P", "S", " ">>
  /\ Len(threw) = 1
  /\ ~Attached(parent, 2)

NoMatch0 == MatchingAnchors(parent0, {dashboard, groups}) = {}

\* C3: when no link of the sidebar reads dashboard or groups, the listeners
\* leave every element where it was, create none, throw nothing and log
\* nothing.
C3_NoMatchNoChange ==
  NoMatch0 =>
    /\ parent = parent0
    /\ console = <<>>
    /\ ~uncaught
    /\ \A i \in 1..Len(threw) : ~threw[i]

\* both listeners have run over a sidebar whose links all read otherwise
C3_RanOverUnmatchedLinks ==
  /\ NoMatch0
  /\ Len(threw) = 2
  /\ \E a \in AttachedSet(parent0) : tag[a] = "a" /\ UnderSidebar(parent0, a)
  /\ \E a \in AttachedSet(parent0) : tag[a] = "a" /\ text[a] = Dashboard

NoSidebar0 == \A n \in AttachedSet(parent0) : "nav-sidebar" \notin cls[n]

\* C4 as stated: without a .nav-sidebar element the first listener logs the
\* warning and lets no exception out.
C4_Original ==
  NoSidebar0 /\ Len(threw) >= 1 =>
    /\ \E i \in 1..Len(console) : console[i].msg = "Sidebar customization failed"
    /\ ~uncaught

\* C4 amended: without a .nav-sidebar element the listeners run to the end of
\* their try blocks: nothing is thrown, no warning is logged, the document
\* is unchanged and ul is null.
C4_NoSidebarNoWarning ==
  NoSidebar0 /\ Len(threw) >= 1 =>
    /\ console = <<>>
    /\ ~uncaught
    /\ \A i \in 1..Len(threw) : ~threw[i]
    /\ parent = parent0
    /\ ul = Null

\* both listeners have run on a page with links and no sidebar
C4_RanWithoutSidebar ==
  /\ NoSidebar0
  /\ Len(threw) = 2
  /\ \E a \in AttachedSet(parent0) : tag[a] = "a" /\ text[a] = Dashboard

\* C5 as stated: once the first listener has run, no later listener run
\* (the second listener, or either one on a second dispatch) removes anything.
C5_LaterRunsChangeNothing ==
  Len(threw) >= 2 => parent = parentPrev

\* the listener of the i-th run
ListenerOfRun(i) == IF i % 2 = 1 THEN 1 ELSE 2

\* one warning per run that threw, in the order of the runs
WarningsOwed ==
  LET runs == SelectSeq([i \in 1..Len(threw) |-> i], LAMBDA i : threw[i])
  IN [k \in 1..Len(runs) |-> Warning(ListenerOfRun(runs[k]))]

\* C6: whichever DOM call of a listener throws, the exception is caught in
\* that listener and logged as one warning, it never reaches the dispatcher,
\* and after a run of the first listener, failed or not, the dispatch is at
\* the second listener.
C6_CaughtAndLoggedOnce ==
  /\ console = WarningsOwed
  /\ ~uncaught
  /\ Len(threw) % 2 = 1 => listener = 2

\* the first listener failed, the second one ran after it and removed an item
C6_SecondRanAfterFirstFailed ==
  /\ threw = <<TRUE, FALSE>>
  /\ console = <<Warning(1)>>
  /\ parent # parentPrev

LastRunThrew == Len(threw) >= 1 /\ threw[Len(threw)]

SidebarAnchorSet(p) ==
  {a \in AttachedSet(p) : tag[a] = "a" /\ UnderSidebar(p, a)}

\* the links whose callback returned before callback f - 1 threw (elements
\* are numbered in tree order, the order of the forEach)
CompletedAnchors(p, f) ==
  {a \in SidebarAnchorSet(p) :
     Cardinality({b \in SidebarAnchorSet(p) : b < a}) + 1 <= f - 2}

ExamsHeaders ==
  {h \in AttachedSet(parent) :
     /\ "nav-header" \in cls[h]
     /\ UnderSidebar(parent, h)
     /\ Reads(TextContent(parent, text, h), exams)}

\* the element after h among its siblings
Following(h) == {m \in DOMAIN parent : parent[m] = parent[h] /\ m > h}

FirstOf(S) == IF S = {} THEN Null ELSE Min(S)

\* the first list inside a sidebar
FirstSidebarList ==
  FirstOf({n \in AttachedSet(parent) : tag[n] = "ul" /\ UnderSidebar(parent, n)})

\* the first element of class nav-sidebar
FirstSidebar ==
  FirstOf({n \in AttachedSet(parent) : "nav-sidebar" \in cls[n]})

FirstRunDone == Len(threw) = 1 /\ ~threw[1]

C10_OnlySidebarDescendantsRemoved ==
  \A n \in DOMAIN parent :
    parent[n] = Null /\ parent0[n] # Null => UnderSidebar(parent0, n)

====
